---- MODULE Spec2Model ----
(***************************************************************************)
(* Model of the POST /sales/insights route handler                         *)
(* (src/unnamed/part_000, lines 1-128).                                    *)
(*                                                                         *)
(* One request is followed from its JSON body to its response.  JavaScript *)
(* values are tagged records, the categorySales object is its list of own  *)
(* properties in Object.entries order, and numbers are exact: amounts are  *)
(* integers and a quotient is a fraction in lowest terms.                  *)
(***************************************************************************)
EXTENDS Integers, Sequences, FiniteSets, TLC

VARIABLES
  body,           \* what req.json() yields for this request
  pc,             \* position of the handler: "start", "loop", "await", "done"
  i,              \* index of the next element of body visited by the for-of loop
  categorySales,  \* own properties of the categorySales object, in enumeration order
  totalSales,     \* the running total
  aiPrompt,       \* prompts passed to generateContent, in call order
  aiResult,       \* outcome of the generateContent call
  responses,      \* responses the handler has returned, in order
  logged          \* errors written with console.error

vars == <<body, pc, i, categorySales, totalSales, aiPrompt, aiResult, responses, logged>>

\* ------------------------------------------------------------------ bounds
MaxLen == 3
MaxAmount == 2

\* ------------------------------------------------------- JavaScript values
Num(n) == [t |-> "number", n |-> n, s |-> ""]
Str(s) == [t |-> "string", n |-> 0, s |-> s]
Undefined == [t |-> "undefined", n |-> 0, s |-> ""]
\* a function object; s is the text its conversion to a string yields
Fn(s) == [t |-> "function", n |-> 0, s |-> s]

\* ToBoolean
Truthy(v) ==
  CASE v.t = "number" -> v.n # 0
    [] v.t = "string" -> v.s # ""
    [] v.t = "undefined" -> FALSE
    [] OTHER -> TRUE

\* ToString
JsToString(v) ==
  CASE v.t = "number" -> ToString(v.n)
    [] v.t = "undefined" -> "undefined"
    [] OTHER -> v.s

\* the property key a value used in obj[value] stands for
ToPropertyKey(v) == JsToString(v)

\* a || b
Or(a, b) == IF Truthy(a) THEN a ELSE b

\* a + b: addition of two numbers, concatenation of strings otherwise
Plus(a, b) ==
  IF a.t = "number" /\ b.t = "number"
  THEN Num(a.n + b.n)
  ELSE Str(JsToString(a) \o JsToString(b))

\* variant of Greater comparing with >=
GreaterOrEqual(a, b) == a.t = "number" /\ b.t = "number" /\ a.n >= b.n
\* a > b where b is a number: a value that is no number converts to NaN here
\* (the only such values are texts starting with "function"), and NaN > b is false
Greater(a, b) == a.t = "number" /\ b.t = "number" /\ a.n > b.n

\* ------------------------------------------------------------ plain objects
\* properties every object literal inherits from Object.prototype (of these,
\* the requests below use "constructor")
ObjectPrototype(key) ==
  CASE key = "constructor" -> Fn("function Object() { [native code] }")
    [] OTHER -> Undefined

\* keys that are array indices: enumerated first, in ascending numeric order
IndexRange == 0..9
IsIndexKey(key) == \E k \in IndexRange : ToString(k) = key
IndexOf(key) == CHOOSE k \in IndexRange : ToString(k) = key

HasOwn(obj, key) == \E j \in 1..Len(obj) : obj[j].key = key
OwnPos(obj, key) == CHOOSE j \in 1..Len(obj) : obj[j].key = key

\* obj[key]
Get(obj, key) ==
  IF HasOwn(obj, key) THEN obj[OwnPos(obj, key)].val ELSE ObjectPrototype(key)

\* where a new own property is enumerated
InsertPos(obj, key) ==
  IF IsIndexKey(key)
  THEN 1 + Cardinality({j \in 1..Len(obj) :
                          IsIndexKey(obj[j].key) /\ IndexOf(obj[j].key) < IndexOf(key)})
  ELSE Len(obj) + 1

\* obj[key] = val
Set(obj, key, val) ==
  IF HasOwn(obj, key)
  THEN [obj EXCEPT ![OwnPos(obj, key)] = [key |-> key, val |-> val]]
  ELSE LET p == InsertPos(obj, key)
       IN SubSeq(obj, 1, p - 1) \o <<[key |-> key, val |-> val]>> \o SubSeq(obj, p, Len(obj))

\* Object.entries(obj)
Entries(obj) == obj

\* ------------------------------------------------------------------ numbers
RECURSIVE Gcd(_, _)
Gcd(a, b) == IF b = 0 THEN a ELSE Gcd(b, a % b)

\* a / b for a >= 0, b >= 0; den = 0 stands for NaN (0 / 0)
Div(a, b) ==
  IF b = 0 THEN [num |-> 0, den |-> 0]
  ELSE LET g == Gcd(a, b) IN [num |-> a \div g, den |-> b \div g]

\* the integer n of x.toFixed(2): n / 100 closest to x, the larger n on a tie
Hundredths(x) == (200 * x.num + x.den) \div (2 * x.den)

\* x.toFixed(2)
ToFixed2(x) ==
  IF x.den = 0 THEN "NaN"
  ELSE LET h == Hundredths(x)
           c == h % 100
       IN ToString(h \div 100) \o "." \o (IF c < 10 THEN "0" ELSE "") \o ToString(c)

\* ---------------------------------------------------------------- requests
Sale(category, amount) == [isNull |-> FALSE, category |-> category, amount |-> amount]
\* a null element of the array
NullSale == [isNull |-> TRUE, category |-> Undefined, amount |-> Undefined]

CategoryNames == {"A", "B", "1", "constructor"}
WellFormedSales == {Sale(Str(c), Num(a)) : c \in CategoryNames, a \in 0..MaxAmount}
OtherSales ==
  { Sale(Num(5), Num(1)),      \* category is a number
    Sale(Undefined, Num(1)),   \* category is missing
    Sale(Str(""), Num(1)),     \* category is the empty string
    Sale(Str("A"), Num(-1)),   \* amount is negative
    Sale(Str("A"), Str("1")),  \* amount is a string
    Sale(Str("A"), Undefined), \* amount is missing
    NullSale }
Sales == WellFormedSales \cup OtherSales

Arrays == UNION {[1..k -> Sales] : k \in 0..MaxLen}

\* kind "malformed": req.json() throws; kind "value": a JSON value that is no
\* array (an object, null, a number, a string); kind "array": an array
Bodies ==
  {[kind |-> "malformed", records |-> <<>>], [kind |-> "value", records |-> <<>>]}
    \cup {[kind |-> "array", records |-> a] : a \in Arrays}

\* what the generative-text service can answer
AiTexts == {"Mocked AI summary", "Sales were strong."}
AiErrors == {"API failure"}

\* ------------------------------------------------------------------ handler
InvalidInputMessage == "Invalid input: Expected an array of sales records"
InvalidSaleMessage == "Invalid sale record"
InternalErrorMessage == "Internal Server Error"

JsonResponse(status, b) == [status |-> status, body |-> b]

\* variant of IsInvalidInput without the length check
IsInvalidInputNoLength(b) == b.kind # "array"
\* !Array.isArray(body) || body.length === 0
IsInvalidInput(b) == b.kind # "array" \/ Len(b.records) = 0

\* !sale.category || typeof sale.amount !== 'number' || sale.amount < 0
IsInvalidSale(sale) ==
  \/ ~Truthy(sale.category)
  \/ sale.amount.t # "number"
  \/ sale.amount.n < 0

\* totalSales += sale.amount
AddToTotal(total, sale) == total + sale.amount.n

\* categorySales[sale.category] = (categorySales[sale.category] || 0) + sale.amount
AddToCategory(obj, sale) ==
  LET key == ToPropertyKey(sale.category)
  IN Set(obj, key, Plus(Or(Get(obj, key), Num(0)), sale.amount))

\* Object.entries(categorySales).reduce((max, entry) => ..., ['', 0])
RECURSIVE Reduce(_, _)
Reduce(entries, max) ==
  IF entries = <<>> THEN max
  ELSE Reduce(Tail(entries),
              IF Greater(Head(entries).val, max.val) THEN Head(entries) ELSE max)
BestCategory(obj) == Reduce(Entries(obj), [key |-> "", val |-> Num(0)])

\* variant of AverageSale rounding the quotient to two decimals
AverageSaleRounded(total, n) == Div(Hundredths(Div(total, n)), 100)
\* totalSales / body.length
AverageSale(total, n) == Div(total, n)

\* the insights object
Insights ==
  [ totalSales |-> totalSales,
    averageSale |-> AverageSale(totalSales, Len(body.records)),
    categorySales |-> categorySales,
    bestPerformingCategory |-> BestCategory(categorySales).key ]

\* the values the prompt template embeds
Prompt(ins) ==
  [ total |-> ToFixed2(Div(ins.totalSales, 1)),
    average |-> ToFixed2(ins.averageSale),
    best |-> ins.bestPerformingCategory,
    breakdown |-> ins.categorySales ]

\* variant of Summary losing the text
SummaryDropped(text) == ""
\* aiResponse.response.text()
Summary(text) == text

\* variant of CatchBody echoing the error
CatchBodyDetail(err) == [error |-> err]
\* body of the response the catch block returns
CatchBody(err) == [error |-> InternalErrorMessage]

\* return NextResponse.json(...)
Respond(r) ==
  /\ responses' = Append(responses, r)
  /\ pc' = "done"

\* the catch block: log the error, answer 500
Catch(err) ==
  /\ logged' = Append(logged, err)
  /\ Respond(JsonResponse(500, CatchBody(err)))

\* a request arrives at the loaded module (GEMINI_API_KEY was set, genAI exists);
\* the locals of lines 49-50 hold their initial values
Init ==
  /\ body \in Bodies
  /\ pc = "start"
  /\ i = 1
  /\ categorySales = <<>>
  /\ totalSales = 0
  /\ aiPrompt = <<>>
  /\ aiResult = [status |-> "none", value |-> ""]
  /\ responses = <<>>
  /\ logged = <<>>

\* await req.json() and the check of the body's shape
ParseBody ==
  /\ pc = "start"
  /\ IF body.kind = "malformed"
     THEN Catch("SyntaxError")
     ELSE IF IsInvalidInput(body)
     THEN /\ Respond(JsonResponse(400, [error |-> InvalidInputMessage]))
          /\ UNCHANGED logged
     ELSE /\ pc' = "loop"
          /\ UNCHANGED <<responses, logged>>
  /\ UNCHANGED <<body, i, categorySales, totalSales, aiPrompt, aiResult>>

\* one iteration of for (const sale of body)
LoopStep ==
  /\ pc = "loop"
  /\ i <= Len(body.records)
  /\ LET sale == body.records[i]
     IN IF sale.isNull
        THEN /\ Catch("TypeError")
             /\ UNCHANGED <<i, categorySales, totalSales>>
        ELSE IF IsInvalidSale(sale)
        THEN /\ Respond(JsonResponse(400, [error |-> InvalidSaleMessage]))
             /\ UNCHANGED <<i, categorySales, totalSales, logged>>
        ELSE /\ totalSales' = AddToTotal(totalSales, sale)
             /\ categorySales' = AddToCategory(categorySales, sale)
             /\ i' = i + 1
             /\ UNCHANGED <<pc, responses, logged>>
  /\ UNCHANGED <<body, aiPrompt, aiResult>>

\* after the loop: insights, prompt, model.generateContent(aiPrompt)
CallAI ==
  /\ pc = "loop"
  /\ i > Len(body.records)
  /\ aiPrompt' = Append(aiPrompt, Prompt(Insights))
  /\ pc' = "await"
  /\ UNCHANGED <<body, i, categorySales, totalSales, aiResult, responses, logged>>

\* generateContent resolves: answer 200 with the insights and the summary
AiResolve ==
  /\ pc = "await"
  /\ \E text \in AiTexts :
       /\ aiResult' = [status |-> "fulfilled", value |-> text]
       /\ Respond(JsonResponse(200, [insights |-> Insights, summary |-> Summary(text)]))
  /\ UNCHANGED <<body, i, categorySales, totalSales, aiPrompt, logged>>

\* generateContent rejects: the catch block
AiReject ==
  /\ pc = "await"
  /\ \E err \in AiErrors :
       /\ aiResult' = [status |-> "rejected", value |-> err]
       /\ Catch(err)
  /\ UNCHANGED <<body, i, categorySales, totalSales, aiPrompt>>

Next == ParseBody \/ LoopStep \/ CallAI \/ AiResolve \/ AiReject

Spec == Init /\ [][Next]_vars

TypeOK ==
  /\ pc \in {"start", "loop", "await", "done"}
  /\ Len(responses) <= 1
  /\ Len(aiPrompt) <= 1

\* ------------------------------------------------- vocabulary of the claims
Records == body.records
Responded == Len(responses) = 1
Response == responses[1]
Succeeded == pc = "done" /\ Responded /\ Response.status = 200

\* a valid record: truthy category, numeric amount >= 0
ValidRecord(r) ==
  /\ ~r.isNull
  /\ Truthy(r.category)
  /\ r.amount.t = "number"
  /\ r.amount.n >= 0
AllValid ==
  /\ body.kind = "array"
  /\ Len(Records) > 0
  /\ \A k \in 1..Len(Records) : ValidRecord(Records[k])

NameOf(r) == JsToString(r.category)
NamesOfInput == {NameOf(Records[k]) : k \in 1..Len(Records)}

RECURSIVE SumOver(_)
SumOver(S) ==
  IF S = {} THEN 0
  ELSE LET k == CHOOSE x \in S : TRUE IN Records[k].amount.n + SumOver(S \ {k})
SumOfAmounts == SumOver(1..Len(Records))
\* sum of the amounts of the records of category name among the first upto records
RunningSum(name, upto) == SumOver({k \in 1..upto : NameOf(Records[k]) = name})
SumFor(name) == RunningSum(name, Len(Records))
MaxSum == CHOOSE m \in {SumFor(c) : c \in NamesOfInput} : \A c \in NamesOfInput : SumFor(c) <= m
TiedNames == {c \in NamesOfInput : SumFor(c) = MaxSum}
FirstRecord(name) == CHOOSE k \in 1..Len(Records) :
  NameOf(Records[k]) = name /\ \A j \in 1..(k - 1) : NameOf(Records[j]) # name
\* the first record at which the running sum of name equals the maximum
ReachedAt(name) == CHOOSE k \in 1..Len(Records) :
  RunningSum(name, k) = MaxSum /\ \A j \in 1..(k - 1) : RunningSum(name, j) # MaxSum
\* names that are neither array indices nor inherited from Object.prototype
OrdinaryName(name) == ~IsIndexKey(name) /\ ObjectPrototype(name) = Undefined

C2_CategorySalesExact ==
  (Succeeded /\ AllValid) =>
    LET cs == Response.body.insights.categorySales
    IN /\ {cs[j].key : j \in 1..Len(cs)} = NamesOfInput
       /\ Len(cs) = Cardinality(NamesOfInput)
       /\ \A j \in 1..Len(cs) : cs[j].val = Num(SumFor(cs[j].key))

\* --------------------------------------------------------------------- C3
\* C3: for a non-empty array of valid records (amounts may be 0) the returned
\* bestPerformingCategory is a category name of the input whose summed amount
\* is the maximum over all categories, and among several such categories it is
\* the one whose first record appears earliest.
C3_BestIsMaximalCategory ==
  (Succeeded /\ AllValid) =>
    LET best == Response.body.insights.bestPerformingCategory
    IN /\ best \in NamesOfInput
       /\ SumFor(best) = MaxSum
       /\ \A c \in TiedNames : FirstRecord(best) <= FirstRecord(c)

\* --------------------------------------------------------------------- C4
\* C4: when the parsed body is not an array or is an empty array, the handler
\* answers 400 with { error: "Invalid input: Expected an array of sales
\* records" } and the generative-text service is never called.
C4_InvalidInputRejected ==
  (body.kind = "value" \/ (body.kind = "array" /\ Len(Records) = 0)) =>
    /\ aiPrompt = <<>>
    /\ pc \in {"start", "done"}
    /\ pc = "done" =>
         responses = <<JsonResponse(400, [error |-> InvalidInputMessage])>>

\* an empty array has been answered
C4_Witness ==
  /\ body.kind = "array" /\ Len(Records) = 0
  /\ pc = "done" /\ Responded /\ Response.status = 400

\* --------------------------------------------------------------------- C5
\* C5: when the body is a non-empty array in which some element is missing its
\* category or has a non-numeric or negative amount, wherever it stands, the
\* handler answers 400 with exactly { error: "Invalid sale record" }: no
\* insights are returned and the external service is never called.
LacksCategoryOrAmount(r) ==
  /\ ~r.isNull
  /\ \/ ~Truthy(r.category)
     \/ r.amount.t # "number"
     \/ r.amount.n < 0
C5_InvalidRecordRejected ==
  (/\ body.kind = "array"
   /\ \E k \in 1..Len(Records) : LacksCategoryOrAmount(Records[k])) =>
    /\ aiPrompt = <<>>
    /\ pc = "done" =>
         responses = <<JsonResponse(400, [error |-> InvalidSaleMessage])>>

\* --------------------------------------------------------------------- C6
\* C6: when the external summarization call raises an error for a request that
\* passed validation, the handler answers 500 with exactly
\* { error: "Internal Server Error" }: neither the insights nor any detail of
\* the underlying error is in the response.
C6_ExternalFailureIs500 ==
  aiResult.status = "rejected" =>
    /\ pc = "done"
    /\ responses = <<JsonResponse(500, [error |-> InternalErrorMessage])>>
    /\ logged = <<aiResult.value>>

\* the call failed after several records had been aggregated
C6_Witness ==
  /\ aiResult.status = "rejected"
  /\ AllValid /\ Len(Records) >= 2 /\ totalSales > 0
  /\ Responded

\* --------------------------------------------------------------------- C7
\* C7: a request that passes validation makes exactly one call to the
\* generative-text service, sends no response before that call has completed,
\* and when the call succeeds answers 200 with the computed insights and a
\* summary equal to the text the call returned.
C7_OneCallThenResponse ==
  AllValid =>
    /\ pc \in {"start", "loop"} => aiPrompt = <<>> /\ responses = <<>>
    /\ pc = "await" =>
         Len(aiPrompt) = 1 /\ responses = <<>> /\ aiResult.status = "none"
    /\ pc = "done" =>
         /\ Len(aiPrompt) = 1
         /\ aiPrompt[1] = Prompt(Insights)
         /\ aiResult.status # "none"
         /\ Responded
         /\ aiResult.status = "fulfilled" =>
              Response = JsonResponse(200, [insights |-> Insights,
                                            summary |-> aiResult.value])

\* a success carrying the service's text
C7_Witness ==
  /\ Succeeded /\ AllValid
  /\ aiResult = [status |-> "fulfilled", value |-> "Mocked AI summary"]
  /\ Response.body.summary = "Mocked AI summary"
  /\ Len(aiPrompt) = 1

\* --------------------------------------------------------------------- C8
\* C8: on a successful request the averageSale of the response body is the
\* mean of the amounts rounded to two decimal places.
C8_AverageRoundedToTwoDecimals ==
  (Succeeded /\ AllValid) =>
    Response.body.insights.averageSale
      = Div(Hundredths(Div(SumOfAmounts, Len(Records))), 100)

\* --------------------------------------------------------------------- C9
\* C9: a non-empty array containing a record whose category is not a string
\* is rejected with 400 and { error: "Invalid sale record" } and is never
\* aggregated into insights.  Stated for arrays without null elements.
C9_NonStringCategoryRejected ==
  (/\ body.kind = "array"
   /\ \A k \in 1..Len(Records) : ~Records[k].isNull
   /\ \E k \in 1..Len(Records) : Records[k].category.t # "string") =>
    /\ aiPrompt = <<>>
    /\ \A k \in 1..Len(Records) :
         (pc # "start" /\ k < i) => Records[k].category.t = "string"
    /\ pc = "done" =>
         responses = <<JsonResponse(400, [error |-> InvalidSaleMessage])>>

\* -------------------------------------------------------------------- C10
\* C10 as stated: when two or more categories share the maximal summed amount,
\* bestPerformingCategory is the one whose running sum first reached that
\* amount in input order.  Stated for a positive maximum and ordinary names.
C10_FirstReachedWins ==
  (/\ Succeeded /\ AllValid
   /\ \A c \in NamesOfInput : OrdinaryName(c)
   /\ MaxSum > 0
   /\ Cardinality(TiedNames) >= 2) =>
    LET best == Response.body.insights.bestPerformingCategory
    IN /\ best \in TiedNames
       /\ \A c \in TiedNames : ReachedAt(best) <= ReachedAt(c)

\* C10 as amended: when two or more entries of the returned categorySales share
\* its maximal numeric value and that value is positive, bestPerformingCategory
\* is the first of them in the enumeration order of categorySales; when all
\* category names are ordinary this is the tied category whose first record
\* appears earliest in the input.
NumericEntries(cs) == {j \in 1..Len(cs) : cs[j].val.t = "number"}
TopEntries(cs) ==
  {j \in NumericEntries(cs) : \A k \in NumericEntries(cs) : cs[k].val.n <= cs[j].val.n}
C10_FirstEnumeratedWins ==
  (Succeeded /\ AllValid) =>
    LET ins == Response.body.insights
        cs == ins.categorySales
        top == TopEntries(cs)
    IN (/\ Cardinality(top) >= 2
        /\ \A j \in top : cs[j].val.n > 0) =>
         /\ \E j \in top : /\ ins.bestPerformingCategory = cs[j].key
                           /\ \A k \in top : j <= k
         /\ (\A c \in NamesOfInput : OrdinaryName(c)) =>
              /\ ins.bestPerformingCategory \in TiedNames
              /\ \A c \in TiedNames :
                   FirstRecord(ins.bestPerformingCategory) <= FirstRecord(c)

\* a tie at a positive maximum in which the category seen first reached the
\* maximum last, and was returned
C10_Witness ==
  /\ Succeeded /\ AllValid
  /\ \A c \in NamesOfInput : OrdinaryName(c)
  /\ MaxSum > 0
  /\ Cardinality(TiedNames) >= 2
  /\ LET best == Response.body.insights.bestPerformingCategory
     IN /\ best \in TiedNames
        /\ \E c \in TiedNames : ReachedAt(c) < ReachedAt(best)
        /\ \A c \in TiedNames : FirstRecord(best) <= FirstRecord(c)

====
